---- MODULE Spec2Model ----
(***************************************************************************)
(* Model of skopt.dummy_opt.dummy_minimize: random search with optional    *)
(* initial points x0 and initial values y0 under a call budget n_calls.    *)
(* The objective func and the sampler space.rvs are external: each call    *)
(* to them is one step with a nondeterministic outcome.                    *)
(***************************************************************************)
EXTENDS Integers, Sequences, FiniteSets, TLC

\* ---- bounds of the model ----
MaxCalls == 3
MaxInit == 2

Coord == {1, 2}
Vals == {0, 1}

\* ---- Python values: a tag, a number (for numbers), elements (for containers)
Num(c) == [t |-> "num", v |-> c, e |-> <<>>]
PList(s) == [t |-> "list", v |-> 0, e |-> s]
PTuple(s) == [t |-> "tuple", v |-> 0, e |-> s]
PNone == [t |-> "None", v |-> 0, e |-> <<>>]
PObject == [t |-> "object", v |-> 0, e |-> <<>>]
Raised == [t |-> "raise", v |-> 0, e |-> <<>>]
Pt(c) == PList(<<Num(c)>>)
Vec == PList(<<Num(0), Num(0)>>)

IsScalar(v) == v.t = "num"
IsList(v) == v.t = "list"
IsIterable(v) == v.t \in {"list", "tuple"}
IsNumber(v) == v.t = "num"
Subscriptable(v) == v.t \in {"list", "tuple"}

SeqsUpTo(S, n) == UNION {[1..m -> S] : m \in 0..n}

\* ---- the arguments a caller can pass
X0Elems == {Num(1)} \cup {Pt(c) : c \in Coord}
Y0Elems == {Num(v) : v \in Vals} \cup {Vec}
X0Inputs == {PNone, Num(1)} \cup {PList(s) : s \in SeqsUpTo(X0Elems, MaxInit)} \cup {PTuple(s) : s \in SeqsUpTo(X0Elems, MaxInit)}
Y0Inputs == {PNone, PObject} \cup {Num(v) : v \in Vals} \cup {PList(s) : s \in SeqsUpTo(Y0Elems, MaxInit)}
Budgets == 0..MaxCalls

\* what a call of func can produce: a scalar, a vector, or an exception
Returns == {Num(v) : v \in Vals} \cup {Vec, Raised}

VARIABLES pc, x0In, y0In, nIn, x0, y0, n_calls, X_left, y_left, calls, sampledAt, err, res

vars == <<pc, x0In, y0In, nIn, x0, y0, n_calls, X_left, y_left, calls, sampledAt, err, res>>

NoResult == [set |-> FALSE, x |-> PNone, fun |-> PNone, func_vals |-> <<>>, x_iters |-> <<>>]

\* ---- lines 74-80: normalisation of x0
\* line 79: isinstance(x0, list) on the (possibly wrapped) x0
X0IsList_any(x) == TRUE
X0IsList(x) == IsList(x)

NormalizeX0(x) ==
  IF x.t = "None" THEN [err |-> "none", x0 |-> <<>>]
  ELSE IF ~Subscriptable(x) THEN [err |-> "TypeError", x0 |-> <<>>]
  ELSE IF Len(x.e) = 0 THEN [err |-> "IndexError", x0 |-> <<>>]
  ELSE IF ~IsList(x.e[1]) THEN [err |-> "none", x0 |-> <<x>>]
  ELSE IF ~X0IsList(x) THEN [err |-> "ValueError:x0_not_list", x0 |-> <<>>]
  ELSE [err |-> "none", x0 |-> x.e]

\* ---- lines 89-103: y0 when it is not computed by the driver
\* line 90-96: y0 as a list
Y0AsList(y) == IF IsIterable(y) THEN y.e ELSE IF IsNumber(y) THEN <<y>> ELSE <<>>

\* line 103: without initial points y0 is reset
NoPointsY0_keep(y) == IF IsIterable(y) \/ IsNumber(y) THEN Y0AsList(y) ELSE <<>>
NoPointsY0(y) == <<>>

\* n_calls after the elif branch of line 89: not changed
RemainingAfterSupplied_dec(n, ys) == n - Len(ys)
RemainingAfterSupplied(n, ys) == n

\* line 88: n_calls -= len(y0)
RemainingAfterComputed_keep(n, ys) == n
RemainingAfterComputed(n, ys) == n - Len(ys)

ValidateY0(xs, y, n) ==
  IF xs # <<>> THEN
    IF ~IsIterable(y) /\ ~IsNumber(y) THEN [err |-> "ValueError:y0_type", y0 |-> <<>>, n |-> n]
    ELSE IF Len(xs) # Len(Y0AsList(y)) THEN [err |-> "ValueError:length", y0 |-> <<>>, n |-> n]
    ELSE IF \E i \in 1..Len(Y0AsList(y)) : ~IsScalar(Y0AsList(y)[i]) THEN [err |-> "ValueError:y0_scalar", y0 |-> <<>>, n |-> n]
    ELSE [err |-> "none", y0 |-> Y0AsList(y), n |-> RemainingAfterSupplied(n, Y0AsList(y))]
  ELSE [err |-> "none", y0 |-> NoPointsY0(y), n |-> n]

\* ---- line 106: if y0
HasInitial_never(ys) == FALSE
HasInitial(ys) == Len(ys) > 0

\* ---- lines 107 and 114: the comprehension runs while i < n_calls
MoreFresh_short(yl, n) == Len(yl) < n - 1
MoreFresh(yl, n) == Len(yl) < n

\* ---- lines 116-117: the merged trace
MergeX_rev(xs, xl) == xl \o xs
MergeX(xs, xl) == xs \o xl
MergeY(ys, yl) == ys \o yl

\* ---- line 120: np.argmin, the first index of the minimum
ArgMin_last(y) == CHOOSE i \in 1..Len(y) : (\A j \in 1..Len(y) : y[j].v >= y[i].v) /\ (\A j \in (i+1)..Len(y) : y[j].v > y[i].v)
ArgMin(y) == CHOOSE i \in 1..Len(y) : (\A j \in 1..Len(y) : y[j].v >= y[i].v) /\ (\A j \in 1..(i-1) : y[j].v > y[i].v)

MkResult(X, y) == [set |-> TRUE, x |-> X[ArgMin(y)], fun |-> y[ArgMin(y)], func_vals |-> y, x_iters |-> X]

\* lines 116-129; np.array / np.argmin fail on an empty or a ragged sequence
Finish(yl) ==
  LET X == MergeX(x0, X_left)
      y == MergeY(y0, yl)
  IN IF Len(y) = 0 THEN pc' = "error" /\ err' = "ValueError:argmin_empty" /\ res' = res
     ELSE IF \E i \in 1..Len(y) : ~IsScalar(y[i]) THEN pc' = "error" /\ err' = "ReduceError" /\ res' = res
     ELSE pc' = "done" /\ err' = err /\ res' = MkResult(X, y)

Fail(kind) == pc' = "error" /\ err' = kind /\ res' = res

Init ==
  /\ pc = "start"
  /\ x0In \in X0Inputs
  /\ y0In \in Y0Inputs
  /\ nIn \in Budgets
  /\ x0 = <<>>
  /\ y0 = <<>>
  /\ n_calls = nIn
  /\ X_left = <<>>
  /\ y_left = <<>>
  /\ calls = <<>>
  /\ sampledAt = -1
  /\ err = "none"
  /\ res = NoResult

\* lines 72-103 up to the first call of func or of the sampler
Validate ==
  /\ pc = "start"
  /\ LET nx == NormalizeX0(x0In) IN
       IF nx.err # "none" THEN
         /\ Fail(nx.err)
         /\ UNCHANGED <<x0, y0, n_calls>>
       ELSE IF y0In.t = "None" /\ nx.x0 # <<>> THEN
         /\ x0' = nx.x0
         /\ pc' = "init_first"
         /\ UNCHANGED <<y0, n_calls, err, res>>
       ELSE LET vy == ValidateY0(nx.x0, y0In, n_calls) IN
         IF vy.err # "none" THEN
           /\ Fail(vy.err)
           /\ x0' = nx.x0
           /\ UNCHANGED <<y0, n_calls>>
         ELSE
           /\ x0' = nx.x0
           /\ y0' = vy.y0
           /\ n_calls' = vy.n
           /\ pc' = "sample"
           /\ UNCHANGED <<err, res>>
  /\ UNCHANGED <<x0In, y0In, nIn, X_left, y_left, calls, sampledAt>>

\* lines 83-88: func(x0[0]) with the scalar check
InitFirst ==
  /\ pc = "init_first"
  /\ \E r \in Returns :
       /\ calls' = Append(calls, [pt |-> x0[1], ret |-> r])
       /\ IF r = Raised THEN Fail("ObjectiveError") /\ UNCHANGED <<y0, n_calls>>
          ELSE IF ~IsScalar(r) THEN Fail("ValueError:func_scalar") /\ UNCHANGED <<y0, n_calls>>
          ELSE /\ y0' = <<r>>
               /\ IF Len(x0) > 1 THEN pc' = "init_rest" /\ n_calls' = n_calls
                  ELSE pc' = "sample" /\ n_calls' = RemainingAfterComputed(n_calls, y0')
               /\ UNCHANGED <<err, res>>
  /\ UNCHANGED <<x0In, y0In, nIn, x0, X_left, y_left, sampledAt>>

\* line 87-88: func(x) for x in x0[1:], unchecked
InitRest ==
  /\ pc = "init_rest"
  /\ \E r \in Returns :
       /\ calls' = Append(calls, [pt |-> x0[Len(y0) + 1], ret |-> r])
       /\ IF r = Raised THEN Fail("ObjectiveError") /\ UNCHANGED <<y0, n_calls>>
          ELSE /\ y0' = Append(y0, r)
               /\ IF Len(y0') < Len(x0) THEN pc' = "init_rest" /\ n_calls' = n_calls
                  ELSE pc' = "sample" /\ n_calls' = RemainingAfterComputed(n_calls, y0')
               /\ UNCHANGED <<err, res>>
  /\ UNCHANGED <<x0In, y0In, nIn, x0, X_left, y_left, sampledAt>>

\* what follows the sampler's return up to the next call of func (lines 106-109)
AfterSample ==
  IF HasInitial(y0) THEN
    IF n_calls >= 1 THEN pc' = "fresh" /\ UNCHANGED <<err, res>>
    ELSE Finish(<<>>)
  ELSE IF Len(X_left') = 0 THEN Fail("IndexError")
  ELSE pc' = "fresh_first" /\ UNCHANGED <<err, res>>

\* line 105: one call of space.rvs for n_calls points
Sample ==
  /\ pc = "sample"
  /\ n_calls >= 0
  /\ sampledAt' = Len(calls)
  /\ \E xl \in [1..n_calls -> {Pt(c) : c \in Coord}] : X_left' = xl
  /\ AfterSample
  /\ UNCHANGED <<x0In, y0In, nIn, x0, y0, n_calls, y_left, calls>>

\* line 105 with a negative n_calls: the sampler raises or yields no points
SampleNegative ==
  /\ pc = "sample"
  /\ n_calls < 0
  /\ sampledAt' = Len(calls)
  /\ X_left' = <<>>
  /\ \/ Fail("SamplerError")
     \/ AfterSample
  /\ UNCHANGED <<x0In, y0In, nIn, x0, y0, n_calls, y_left, calls>>

\* lines 109-113: func(X_left[0]) with the scalar check
FreshFirst ==
  /\ pc = "fresh_first"
  /\ \E r \in Returns :
       /\ calls' = Append(calls, [pt |-> X_left[1], ret |-> r])
       /\ IF r = Raised THEN Fail("ObjectiveError") /\ y_left' = y_left
          ELSE IF ~IsScalar(r) THEN Fail("ValueError:func_scalar") /\ y_left' = y_left
          ELSE /\ y_left' = <<r>>
               /\ IF MoreFresh(y_left', n_calls) THEN pc' = "fresh" /\ UNCHANGED <<err, res>>
                  ELSE Finish(y_left')
  /\ UNCHANGED <<x0In, y0In, nIn, x0, y0, n_calls, X_left, sampledAt>>

\* lines 107 and 114: func(X_left[i]), unchecked
Fresh ==
  /\ pc = "fresh"
  /\ \E r \in Returns :
       /\ calls' = Append(calls, [pt |-> X_left[Len(y_left) + 1], ret |-> r])
       /\ IF r = Raised THEN Fail("ObjectiveError") /\ y_left' = y_left
          ELSE /\ y_left' = Append(y_left, r)
               /\ IF MoreFresh(y_left', n_calls) THEN pc' = "fresh" /\ UNCHANGED <<err, res>>
                  ELSE Finish(y_left')
  /\ UNCHANGED <<x0In, y0In, nIn, x0, y0, n_calls, X_left, sampledAt>>

Next == Validate \/ InitFirst \/ InitRest \/ Sample \/ SampleNegative \/ FreshFirst \/ Fresh

Spec == Init /\ [][Next]_vars

\* ---- vocabulary of the properties
K == Len(x0)
Supplied == y0In.t # "None" /\ x0 # <<>>
Computed == y0In.t = "None" /\ x0 # <<>>
SuppliedCount == IF y0In.t # "None" THEN Len(y0) ELSE 0
ComputedCount == IF y0In.t = "None" THEN Len(x0) ELSE 0
Max(a, b) == IF a >= b THEN a ELSE b
CallRets == [i \in 1..Len(calls) |-> calls[i].ret]
CallPts == [i \in 1..Len(calls) |-> calls[i].pt]

C3_Theorem ==
  (pc = "done" /\ x0In.t = "None" /\ y0In.t = "None" /\ nIn >= 1) =>
     /\ Len(calls) = nIn
     /\ Len(res.func_vals) = nIn
     /\ Len(res.x_iters) = nIn

C3_Witness == pc = "done" /\ x0In.t = "None" /\ y0In.t = "None" /\ nIn = MaxCalls /\ Len(calls) = MaxCalls

\* C4: in every returned Result the best value is the minimum of the value
\* sequence and the best point is the point at the lowest index whose value
\* attains that minimum.
C4_Theorem ==
  pc = "done" =>
     /\ \A i \in 1..Len(res.func_vals) : res.func_vals[i].v >= res.fun.v
     /\ \E i \in 1..Len(res.func_vals) : res.func_vals[i] = res.fun
     /\ \A i \in 1..Len(res.func_vals) :
          (res.func_vals[i].v = res.fun.v /\ \A j \in 1..(i-1) : res.func_vals[j].v # res.fun.v)
             => res.x = res.x_iters[i]

\* a trace mixing initial and fresh observations, the minimum attained twice at
\* different points, the first of them not at the head of the trace
C4_Witness ==
  /\ pc = "done" /\ K >= 1 /\ Len(y_left) >= 2
  /\ \E i, j \in 2..Len(res.func_vals) :
        /\ i < j
        /\ res.func_vals[i] = res.fun /\ res.func_vals[j] = res.fun
        /\ res.x_iters[i] # res.x_iters[j]
        /\ res.x = res.x_iters[i]
        /\ \A h \in 1..(i-1) : res.func_vals[h].v > res.fun.v

\* C5 (as stated): when the first objective invocation of a run returns a
\* non-scalar, the run fails with InvalidObjectiveReturn (the ValueError of the
\* scalar check) after exactly one invocation and returns no Result.
C5_Claim ==
  (Len(calls) >= 1 /\ calls[1].ret = Vec) =>
     /\ pc = "error"
     /\ err = "ValueError:func_scalar"
     /\ Len(calls) = 1
     /\ ~res.set

C7_Claim ==
  (x0In.t \in {"num", "tuple"} /\ pc # "start") =>
     /\ pc = "error"
     /\ err = "ValueError:x0_not_list"
     /\ calls = <<>>

\* C8: the objective is invoked in trace order: the initial points in the
\* caller's order, all of them before the sampler call, then the sampled points
\* in sampling order; in the Result the i-th value is the objective's return
\* for the i-th point at every position the driver computed.
C8_Theorem ==
  /\ \A i \in 1..Len(calls) :
        IF i <= ComputedCount
        THEN calls[i].pt = x0[i] /\ (sampledAt = -1 \/ sampledAt >= i)
        ELSE sampledAt = ComputedCount /\ calls[i].pt = X_left[i - ComputedCount]
  /\ (sampledAt # -1 => sampledAt = ComputedCount)
  /\ pc = "done" =>
        /\ Len(res.x_iters) = Len(res.func_vals)
        /\ Len(res.func_vals) = SuppliedCount + Len(calls)
        /\ \A i \in (SuppliedCount + 1)..Len(res.func_vals) :
              /\ res.func_vals[i] = calls[i - SuppliedCount].ret
              /\ res.x_iters[i] = calls[i - SuppliedCount].pt

C8_Witness ==
  /\ pc = "done" /\ Computed /\ K = 2 /\ Len(X_left) >= 1
  /\ x0[1] # x0[2] /\ X_left[1] # x0[1] /\ X_left[1] # x0[2]
  /\ sampledAt = 2 /\ Len(calls) >= 3

\* C9: every returned Result holds at least one observation and a valid best
\* position; a run with no initial points and budget 0 fails after zero
\* invocations; a run whose k driver-evaluated initial points exhaust the
\* budget (k = N) completes with zero fresh evaluations and a trace of length
\* k, and can only fail through the objective.
C9_Theorem ==
  /\ pc = "done" =>
        /\ res.set
        /\ Len(res.func_vals) >= 1
        /\ Len(res.x_iters) >= 1
        /\ \E i \in 1..Len(res.func_vals) : res.fun = res.func_vals[i] /\ res.x = res.x_iters[i]
  /\ (x0In.t = "None" /\ nIn = 0) =>
        /\ pc \in {"start", "sample", "error"}
        /\ calls = <<>> /\ ~res.set
        /\ (sampledAt # -1 => pc = "error")
  /\ (Computed /\ K = nIn /\ pc = "done") =>
        /\ X_left = <<>> /\ y_left = <<>>
        /\ Len(calls) = K
        /\ Len(res.func_vals) = K /\ Len(res.x_iters) = K
  /\ (Computed /\ K = nIn /\ pc = "error") =>
        err \in {"ObjectiveError", "ValueError:func_scalar", "ReduceError"}

C9_Witness == pc = "done" /\ Computed /\ K = nIn /\ K = MaxInit /\ Len(res.func_vals) = K

\* C10: when y0 is supplied and x0 is not, the supplied values are dropped
\* without validation: the run goes on as a run with neither argument, invoking
\* the objective N times on N fresh samples, and the returned values are
\* exactly the objective's returns.
C10_Theorem ==
  (x0In.t = "None" /\ y0In.t # "None") =>
     /\ ValidateY0(NormalizeX0(x0In).x0, y0In, nIn) = ValidateY0(NormalizeX0(PNone).x0, PNone, nIn)
     /\ pc # "start" =>
          /\ x0 = <<>> /\ y0 = <<>> /\ n_calls = nIn
          /\ err \in {"none", "IndexError", "ObjectiveError", "ValueError:func_scalar", "ReduceError"}
          /\ (err = "IndexError" => nIn = 0)
          /\ (nIn = 0 /\ pc # "sample" => err = "IndexError" /\ calls = <<>>)
          /\ (pc # "sample" => sampledAt = 0)
          /\ CallPts = SubSeq(X_left, 1, Len(calls))
     /\ pc = "done" =>
          /\ Len(calls) = nIn
          /\ res.func_vals = CallRets
          /\ res.x_iters = X_left

C10_Witness == pc = "done" /\ x0In.t = "None" /\ IsIterable(y0In) /\ Len(y0In.e) = MaxInit /\ y0In.e[1] = Vec /\ Len(calls) = nIn /\ nIn >= 2

====
